---- MODULE Spec2Model ----
(***************************************************************************)
(* A model of ynap: bank CSV rows are mapped into Records (src/lib.rs),    *)
(* rewritten by Matchers, the Payees resolver and chains of them           *)
(* (src/lib.rs, src/main.rs), with templates expanded by interpolate       *)
(* (src/template.rs), and written out by main (src/main.rs).               *)
(*                                                                         *)
(* Text is a sequence of one-character strings.  An Option<T> is <<>> for  *)
(* None and <<v>> for Some(v).  A HashMap is modelled together with its    *)
(* iteration order: a sequence of <<key, value>> entries with distinct     *)
(* keys, the order being the one the built map happens to iterate in.      *)
(***************************************************************************)
EXTENDS Integers, Sequences, FiniteSets, TLC

VARIABLES
    pc,         \* position of main / of the harness that calls the library
    mapping,    \* column mapping handed to Record::from
    row,        \* CSV row handed to Record::from
    mapped,     \* outcome of Record::from
    rule,       \* the rule (Matcher, Payees, Vec<Matcher>, MrClean) being applied
    rec0,       \* the record as it was before rule.transform
    rec,        \* the record after rule.transform
    ret,        \* outcome of rule.transform (returned flag, call trace, stderr)
    conf,       \* main: the bank descriptor, the rule file and the input rows
    results,    \* main: `results`, the Vec<Record>
    chain,      \* main: mr_clean, <<>> before it is built
    stdout,     \* main: the records written to the csv writer
    stderr,     \* main: lines written by eprintln!
    hist        \* main: what has happened so far (rows mapped, rules applied)

vars == <<pc, mapping, row, mapped, rule, rec0, rec, ret, conf, results, chain,
          stdout, stderr, hist>>

None == <<>>

Some(v) == <<v>>

(***************************************************************************)
(* Text helpers                                                            *)
(***************************************************************************)
DigitSeq == <<"0", "1", "2", "3", "4", "5", "6", "7", "8", "9">>

Digits == {DigitSeq[i] : i \in 1..10}

DigitVal(c) == (CHOOSE i \in 1..10 : DigitSeq[i] = c) - 1

\* str::replace(from, to) for a one-character `from`; `to` is a text.
RECURSIVE StrReplace(_, _, _)
StrReplace(s, from, to) ==
    IF s = <<>> THEN <<>>
    ELSE (IF Head(s) = from THEN to ELSE <<Head(s)>>) \o StrReplace(Tail(s), from, to)

ToUpper(c) == IF c = "a" THEN "A" ELSE IF c = "b" THEN "B" ELSE c

ToLower(c) == IF c = "A" THEN "a" ELSE IF c = "B" THEN "b" ELSE c

ToUppercase(s) == [i \in 1..Len(s) |-> ToUpper(s[i])]

ToLowercase(s) == [i \in 1..Len(s) |-> ToLower(s[i])]

StartsWith(s, p) == Len(p) <= Len(s) /\ SubSeq(s, 1, Len(p)) = p

Contains(s, p) ==
    \E i \in 0..(Len(s) - Len(p)) : SubSeq(s, i + 1, i + Len(p)) = p

(***************************************************************************)
(* DecimalSeparator::simplify                                              *)
(***************************************************************************)
Simplify(sep, s) ==
    IF sep = "period"
    THEN StrReplace(s, ",", <<>>)
    ELSE StrReplace(StrReplace(s, ".", <<>>), ",", <<".">>)

(***************************************************************************)
(* chrono: NaiveDate::parse_from_str(v, format) and date.format("%Y-%m-%d")*)
(* A format is a sequence of items: "%d", "%m", "%Y" or a literal          *)
(* character.  %d and %m take one or two digits, %Y one to four.           *)
(***************************************************************************)
RECURSIVE ScanNumber(_, _, _, _)
ScanNumber(s, max, n, val) ==
    IF s # <<>> /\ n < max /\ Head(s) \in Digits
    THEN ScanNumber(Tail(s), max, n + 1, 10 * val + DigitVal(Head(s)))
    ELSE [n |-> n, val |-> val, rest |-> s]

IsLeap(y) == y % 4 = 0 /\ (y % 100 # 0 \/ y % 400 = 0)

DaysIn(y, m) ==
    IF m = 2 THEN (IF IsLeap(y) THEN 29 ELSE 28)
    ELSE IF m \in {4, 6, 9, 11} THEN 30 ELSE 31

ValidYmd(p) ==
    /\ p.y >= 0 /\ p.m >= 1 /\ p.m <= 12
    /\ p.d >= 1 /\ p.d <= DaysIn(p.y, p.m)

\* Parsed::set_*: a field may be set twice only to the same value.
SetField(p, f, v) ==
    IF p[f] = -1 \/ p[f] = v THEN [p EXCEPT ![f] = v] ELSE [p EXCEPT !.bad = TRUE]

RECURSIVE ParseItems(_, _, _)
ParseItems(fmt, s, p) ==
    IF p.bad THEN p
    ELSE IF fmt = <<>> THEN (IF s = <<>> THEN p ELSE [p EXCEPT !.bad = TRUE])
    ELSE IF Head(fmt) \in {"%d", "%m", "%Y"}
    THEN LET f == IF Head(fmt) = "%d" THEN "d" ELSE IF Head(fmt) = "%m" THEN "m" ELSE "y"
             sc == ScanNumber(s, IF f = "y" THEN 4 ELSE 2, 0, 0)
         IN  IF sc.n = 0 THEN [p EXCEPT !.bad = TRUE]
             ELSE ParseItems(Tail(fmt), sc.rest, SetField(p, f, sc.val))
    ELSE IF s # <<>> /\ Head(s) = Head(fmt) THEN ParseItems(Tail(fmt), Tail(s), p)
    ELSE [p EXCEPT !.bad = TRUE]

\* <<>> when parse_from_str returns Err, <<[y, m, d]>> otherwise.
ParseDate(v, fmt) ==
    LET p == ParseItems(fmt, v, [y |-> -1, m |-> -1, d |-> -1, bad |-> FALSE])
    IN  IF ~p.bad /\ p.y # -1 /\ p.m # -1 /\ p.d # -1 /\ ValidYmd(p)
        THEN Some(p) ELSE None

RECURSIVE Pad(_, _)
Pad(n, width) ==
    IF width = 0 THEN <<>>
    ELSE Pad(n \div 10, width - 1) \o <<DigitSeq[(n % 10) + 1]>>

FormatDate(p) == Pad(p.y, 4) \o <<"-">> \o Pad(p.m, 2) \o <<"-">> \o Pad(p.d, 2)

(***************************************************************************)
(* Record                                                                  *)
(***************************************************************************)
CanonicalKeys == {"date", "payee", "category", "memo", "amount"}

\* The keys the `extra` HashMap is given in this model; any other key is absent.
ExtraKeys == {"ref", "payee"}

RecordNew ==
    [date |-> <<>>, payee |-> <<>>, category |-> <<>>, memo |-> <<>>,
     amount |-> <<>>, extra |-> [k \in ExtraKeys |-> None], transformed |-> FALSE]

\* Mutant of RecordGet: the memo arm returns the category.
RecordGetSwapped(r, key) ==
    IF key = "memo" THEN Some(r.category)
    ELSE IF key \in CanonicalKeys THEN Some(r[key])
    ELSE IF key \in ExtraKeys THEN r.extra[key]
    ELSE None

RecordGet(r, key) ==
    IF key \in CanonicalKeys THEN Some(r[key])
    ELSE IF key \in ExtraKeys THEN r.extra[key]
    ELSE None

\* The record after Record::replace(key, value).
RecordReplace(r, key, value) ==
    IF key \in CanonicalKeys THEN [r EXCEPT ![key] = value]
    ELSE [r EXCEPT !.extra[key] = Some(value)]

\* One iteration of the loop of Record::from; res.panic # "" once it has panicked.
FromStep(res, input, col, i) ==
    IF res.panic # "" THEN res
    ELSE IF i > Len(input)
    THEN [res EXCEPT !.panic = "input record has less columns than expected"]
    ELSE LET v == input[i]
             r == res.rec
         IN  CASE col.type = "ignore" -> res
               [] col.type = "date" ->
                    IF col.format = <<>> THEN [res EXCEPT !.rec.date = v]
                    ELSE LET date == ParseDate(v, col.format)
                         IN  IF date = None
                             THEN [res EXCEPT !.panic = "date or date format is malformed"]
                             ELSE [res EXCEPT !.rec.date = FormatDate(date[1])]
               [] col.type = "payee" -> [res EXCEPT !.rec.payee = v]
               [] col.type = "category" -> [res EXCEPT !.rec.category = v]
               [] col.type = "memo" -> [res EXCEPT !.rec.memo = v]
               [] col.type = "inflow" -> [res EXCEPT !.rec.amount = Simplify(col.sep, v)]
               [] col.type = "outflow" ->
                    [res EXCEPT !.rec.amount = <<"-">> \o Simplify(col.sep, v)]
               [] col.type = "extra" -> [res EXCEPT !.rec.extra[col.key] = Some(v)]

RECURSIVE FromLoop(_, _, _, _)
FromLoop(res, input, cols, i) ==
    IF i > Len(cols) THEN res
    ELSE FromLoop(FromStep(res, input, cols[i], i), input, cols, i + 1)

\* Record::from(input, mapping): [panic |-> "" or the message, rec |-> the record].
RecordFrom(input, cols) == FromLoop([panic |-> "", rec |-> RecordNew], input, cols, 1)

(***************************************************************************)
(* template::interpolate.  A template is held as the sequence of pieces    *)
(* the PLACEHOLDER regex cuts it into: literal text, or a placeholder      *)
(* ${key} / ${key|cmd} (cmd = "" when there is none).  The Inflector       *)
(* command title_case has no definition here; no template of this          *)
(* development uses it.                                                    *)
(***************************************************************************)
Lit(t) == [kind |-> "lit", text |-> t, key |-> "", cmd |-> ""]

Ph(k, c) == [kind |-> "ph", text |-> <<>>, key |-> k, cmd |-> c]

ApplyCommand(cmd, value) ==
    CASE cmd = "" -> [panic |-> "", val |-> value]
      [] cmd = "lowercase" -> [panic |-> "", val |-> ToLowercase(value)]
      [] cmd = "uppercase" -> [panic |-> "", val |-> ToUppercase(value)]
      [] cmd = "not_empty" ->
            IF value = <<>> THEN [panic |-> "value of key cannot be empty", val |-> <<>>]
            ELSE [panic |-> "", val |-> value]
      [] cmd \notin {"", "lowercase", "uppercase", "not_empty", "title_case"} ->
            [panic |-> "invalid command", val |-> <<>>]

RECURSIVE Expand(_, _, _, _)
Expand(tmpl, vals, i, buffer) ==
    IF i > Len(tmpl) THEN [panic |-> "", val |-> buffer]
    ELSE IF tmpl[i].kind = "lit" THEN Expand(tmpl, vals, i + 1, buffer \o tmpl[i].text)
    ELSE LET c == ApplyCommand(tmpl[i].cmd, vals[i])
         IN  IF c.panic # "" THEN c
             ELSE Expand(tmpl, vals, i + 1, buffer \o c.val)

\* interpolate(tmpl, func): [panic |-> "" or the message, val |-> the expansion].
\* func is the lookup, a function from keys to texts.
Interpolate(tmpl, func) ==
    IF \A i \in 1..Len(tmpl) : tmpl[i].kind = "lit"
    THEN Expand(tmpl, <<>>, 1, <<>>)
    ELSE Expand(tmpl,
                [i \in 1..Len(tmpl) |->
                    IF tmpl[i].kind = "ph" THEN func[tmpl[i].key] ELSE <<>>],
                1, <<>>)

(***************************************************************************)
(* Regex, as far as the rules of this development use it.  A search        *)
(* pattern is a literal prefix `pre` anchored at the start of the text,    *)
(* followed by a group that takes the rest of the text up to its end; the  *)
(* group is named `cap`, or unnamed when cap = "".  It matches the texts   *)
(* that start with pre.  A pattern source with bad = TRUE is one that      *)
(* Regex::new rejects.                                                     *)
(***************************************************************************)
CaptureNames == {"n", "memo"}

RegexNew(src) == IF src.bad THEN None ELSE Some([pre |-> src.pre, cap |-> src.cap])

RegexIsMatch(re, text) == StartsWith(text, re.pre)

\* Regex::captures restricted to the named groups: None, or Some(name -> text).
RegexCaptures(re, text) ==
    IF ~StartsWith(text, re.pre) THEN None
    ELSE Some([n \in CaptureNames |->
                 IF n = re.cap THEN Some(SubSeq(text, Len(re.pre) + 1, Len(text)))
                 ELSE None])

(***************************************************************************)
(* MatcherBuilder::build and Matcher                                       *)
(***************************************************************************)
\* [panic, matcher]: Regex::new(&v).unwrap() panics on the first bad pattern.
MatcherBuild(b) ==
    IF \E i \in 1..Len(b.search) : RegexNew(b.search[i][2]) = None
    THEN [panic |-> "called Result::unwrap() on an Err value",
          matcher |-> [kind |-> "matcher", search |-> <<>>, replace |-> <<>>]]
    ELSE [panic |-> "",
          matcher |-> [kind |-> "matcher",
                       search |-> [i \in 1..Len(b.search) |->
                                     <<b.search[i][1], RegexNew(b.search[i][2])[1]>>],
                       replace |-> b.replace]]

\* Mutant of MatcherIsMatch: any search entry suffices (any for all).
MatcherIsMatchAny(m, r) ==
    \E i \in 1..Len(m.search) :
        LET field == RecordGet(r, m.search[i][1])
        IN  field # None /\ RegexIsMatch(m.search[i][2], field[1])

MatcherIsMatch(m, r) ==
    \A i \in 1..Len(m.search) :
        LET field == RecordGet(r, m.search[i][1])
        IN  field # None /\ RegexIsMatch(m.search[i][2], field[1])

\* Mutant of CollectCaptures: a search entry whose field is absent is skipped.
RECURSIVE CollectCapturesSkipAbsent(_, _, _, _)
CollectCapturesSkipAbsent(m, r, i, captures) ==
    IF i > Len(m.search) THEN Some(captures)
    ELSE LET field == RecordGet(r, m.search[i][1])
         IN  IF field = None THEN CollectCapturesSkipAbsent(m, r, i + 1, captures)
             ELSE LET rc == RegexCaptures(m.search[i][2], field[1])
                  IN  IF rc = None THEN None
                      ELSE CollectCapturesSkipAbsent(m, r, i + 1,
                              [n \in CaptureNames |->
                                  IF rc[1][n] # None THEN rc[1][n] ELSE captures[n]])

\* The first loop of Matcher::transform: None when it returns false, else
\* Some(captures), later search entries overwriting earlier ones.
RECURSIVE CollectCaptures(_, _, _, _)
CollectCaptures(m, r, i, captures) ==
    IF i > Len(m.search) THEN Some(captures)
    ELSE LET field == RecordGet(r, m.search[i][1])
         IN  IF field = None THEN None
             ELSE LET rc == RegexCaptures(m.search[i][2], field[1])
                  IN  IF rc = None THEN None
                      ELSE CollectCaptures(m, r, i + 1,
                              [n \in CaptureNames |->
                                  IF rc[1][n] # None THEN rc[1][n] ELSE captures[n]])

\* The keys the templates of this development look up.
LookupKeys == CanonicalKeys \cup ExtraKeys \cup CaptureNames

\* The closure handed to interpolate.
Lookup(captures, r, key) ==
    IF key \in CaptureNames /\ captures[key] # None THEN captures[key][1]
    ELSE IF RecordGet(r, key) # None THEN RecordGet(r, key)[1]
    ELSE <<>>

\* The second loop of Matcher::transform, entries taken in iteration order.
RECURSIVE ReplaceLoop(_, _, _, _)
ReplaceLoop(replace, captures, r, i) ==
    IF i > Len(replace) THEN [panic |-> "", rec |-> r]
    ELSE LET v == Interpolate(replace[i][2],
                              [key \in LookupKeys |-> Lookup(captures, r, key)])
         IN  IF v.panic # "" THEN [panic |-> v.panic, rec |-> r]
             ELSE ReplaceLoop(replace, captures, RecordReplace(r, replace[i][1], v.val),
                              i + 1)

NoCaptures == [n \in CaptureNames |-> None]

\* Matcher::transform: [panic, rec, fired, err, trace].
MatcherTransform(m, r) ==
    LET captures == CollectCaptures(m, r, 1, NoCaptures)
    IN  IF captures = None
        THEN [panic |-> "", rec |-> r, fired |-> FALSE, err |-> <<>>, trace |-> <<>>]
        ELSE LET done == ReplaceLoop(m.replace, captures[1], r, 1)
             IN  IF done.panic # ""
                 THEN [panic |-> done.panic, rec |-> done.rec, fired |-> FALSE,
                       err |-> <<>>, trace |-> <<>>]
                 ELSE [panic |-> "", rec |-> [done.rec EXCEPT !.transformed = TRUE],
                       fired |-> TRUE, err |-> <<>>, trace |-> <<>>]

(***************************************************************************)
(* Payees.  An alias is a text; one that starts with ^ and ends with $ is  *)
(* kept as a regular expression (here: the anchored literal between them,  *)
(* rejected by the regex compiler when it holds an unbalanced parenthesis),*)
(* any other is escaped and matches as a literal substring.                *)
(***************************************************************************)
StartsAndEnds(s) == Len(s) >= 1 /\ s[1] = "^" /\ s[Len(s)] = "$"

\* maybe_escape followed by the compilation of the pattern: None on an error.
CompileAlias(s) ==
    IF StartsAndEnds(s)
    THEN IF \E i \in 1..Len(s) : s[i] = "(" THEN None
         ELSE Some([anchored |-> TRUE,
                    lit |-> IF Len(s) >= 2 THEN SubSeq(s, 2, Len(s) - 1) ELSE <<>>])
    ELSE Some([anchored |-> FALSE, lit |-> s])

AliasIsMatch(a, ci, text) ==
    LET t == IF ci THEN ToLowercase(text) ELSE text
        l == IF ci THEN ToLowercase(a.lit) ELSE a.lit
    IN  IF a.anchored THEN t = l ELSE Contains(t, l)

\* RegexSet::is_match
SetIsMatch(set, text) ==
    \E i \in 1..Len(set.pats) : AliasIsMatch(set.pats[i], set.ci, text)

\* Payees::new(map, case_insensitive): [panic, payees].
PayeesNew(map, case_insensitive) ==
    IF \E i \in 1..Len(map) : \E j \in 1..Len(map[i][2]) :
           CompileAlias(map[i][2][j]) = None
    THEN [panic |-> "invalid regular expression",
          payees |-> [kind |-> "payees", aliases |-> <<>>, strict |-> FALSE]]
    ELSE [panic |-> "",
          payees |-> [kind |-> "payees",
                      aliases |-> [i \in 1..Len(map) |->
                          <<map[i][1],
                            [ci |-> case_insensitive,
                             pats |-> [j \in 1..Len(map[i][2]) |->
                                          CompileAlias(map[i][2][j])[1]]]>>],
                      strict |-> FALSE]]

PayeesDefault == [kind |-> "payees", aliases |-> <<>>, strict |-> TRUE]

PayeesIsMatch(p, r) ==
    \E i \in 1..Len(p.aliases) : SetIsMatch(p.aliases[i][2], r.payee)

\* Mutant of PayeesStep: in strict mode every match writes the payee.
PayeesStepOverwrite(p, original, st, k, set) ==
    IF st.stop \/ ~SetIsMatch(set, original) THEN st
    ELSE LET matches == st.matches + 1
         IN  IF p.strict
             THEN IF matches = 1
                  THEN [st EXCEPT !.matches = matches, !.rec.payee = k]
                  ELSE [st EXCEPT !.matches = matches, !.rec.payee = k,
                           !.err = @ \o << <<"-", k>> >>]
             ELSE [st EXCEPT !.matches = matches, !.rec.payee = k, !.stop = TRUE]

\* One iteration of the loop of Payees::transform; st.stop after `break`.
PayeesStep(p, original, st, k, set) ==
    IF st.stop \/ ~SetIsMatch(set, original) THEN st
    ELSE LET matches == st.matches + 1
         IN  IF p.strict
             THEN IF matches = 1
                  THEN [st EXCEPT !.matches = matches, !.rec.payee = k]
                  ELSE IF matches = 2
                  THEN [st EXCEPT !.matches = matches,
                           !.err = @ \o << <<"warning: multiple aliases match payee", original>>,
                                           <<"-", st.rec.payee>>, <<"-", k>> >>]
                  ELSE [st EXCEPT !.matches = matches, !.err = @ \o << <<"-", k>> >>]
             ELSE [st EXCEPT !.matches = matches, !.rec.payee = k, !.stop = TRUE]

RECURSIVE PayeesLoop(_, _, _, _)
PayeesLoop(p, original, st, i) ==
    IF i > Len(p.aliases) THEN st
    ELSE PayeesLoop(p, original,
                    PayeesStep(p, original, st, p.aliases[i][1], p.aliases[i][2]), i + 1)

\* Payees::transform: [panic, rec, fired, err, trace].
PayeesTransform(p, r) ==
    LET st == PayeesLoop(p, r.payee,
                         [rec |-> r, matches |-> 0, err |-> <<>>, stop |-> FALSE], 1)
    IN  [panic |-> "", rec |-> st.rec, fired |-> st.matches # 0, err |-> st.err,
         trace |-> <<>>]

(***************************************************************************)
(* Ordered collections of rules: Vec<Matcher> and MrClean.  The result of  *)
(* transform carries the trace of the members' transform calls: the        *)
(* member's index and kind, the payee it found and left, what it returned. *)
(***************************************************************************)
\* x.is_match(r) / x.transform(r) for a boxed Transformer.
DynIsMatch(x, r) ==
    IF x.kind = "matcher" THEN MatcherIsMatch(x, r) ELSE PayeesIsMatch(x, r)

DynTransform(x, r) ==
    IF x.kind = "matcher" THEN MatcherTransform(x, r) ELSE PayeesTransform(x, r)

Call(i, x, r, t) ==
    [idx |-> i, kind |-> x.kind, in |-> r.payee, out |-> t.rec.payee, fired |-> t.fired]

\* Mutant of FoldStep: a || x.transform(r), which skips x once a is true.
FoldStepShortCircuit(acc, x, i) ==
    IF acc.panic # "" \/ acc.fired THEN acc
    ELSE LET t == DynTransform(x, acc.rec)
         IN  [panic |-> t.panic, rec |-> t.rec, fired |-> t.fired \/ acc.fired,
              err |-> acc.err \o t.err, trace |-> Append(acc.trace, Call(i, x, acc.rec, t))]

\* One step of fold(false, |a, x| x.transform(r) | a).
FoldStep(acc, x, i) ==
    IF acc.panic # "" THEN acc
    ELSE LET t == DynTransform(x, acc.rec)
         IN  [panic |-> t.panic, rec |-> t.rec, fired |-> t.fired \/ acc.fired,
              err |-> acc.err \o t.err, trace |-> Append(acc.trace, Call(i, x, acc.rec, t))]

RECURSIVE Fold(_, _, _)
Fold(members, acc, i) ==
    IF i > Len(members) THEN acc
    ELSE Fold(members, FoldStep(acc, members[i], i), i + 1)

FoldInit(r) == [panic |-> "", rec |-> r, fired |-> FALSE, err |-> <<>>, trace |-> <<>>]

VecIsMatch(v, r) == \E i \in 1..Len(v.members) : MatcherIsMatch(v.members[i], r)

VecTransform(v, r) == Fold(v.members, FoldInit(r), 1)

MrCleanIsMatch(c, r) == \E i \in 1..Len(c.members) : DynIsMatch(c.members[i], r)

MrCleanTransform(c, r) == Fold(c.members, FoldInit(r), 1)

\* Mutant of MrCleanFrom: the payee resolver is pushed first.
MrCleanFromPayeesFirst(r) ==
    LET pre == [i \in 1..Len(r.pre_transform) |-> MatcherBuild(r.pre_transform[i])]
        pay == PayeesNew(r.payees, TRUE)
        post == [i \in 1..Len(r.post_transform) |-> MatcherBuild(r.post_transform[i])]
        all == <<pay>> \o pre \o post
    IN  IF \E i \in 1..Len(all) : all[i].panic # ""
        THEN [panic |-> "panic", chain |-> [kind |-> "mrclean", members |-> <<>>]]
        ELSE [panic |-> "",
              chain |-> [kind |-> "mrclean",
                         members |-> <<pay.payees>>
                                     \o [i \in 1..Len(pre) |-> pre[i].matcher]
                                     \o [i \in 1..Len(post) |-> post[i].matcher]]]

\* MrClean::from(rules): [panic, chain].  The builders are built in the order
\* of the pushes; the first that panics ends the construction.
MrCleanFrom(r) ==
    LET pre == [i \in 1..Len(r.pre_transform) |-> MatcherBuild(r.pre_transform[i])]
        pay == PayeesNew(r.payees, TRUE)
        post == [i \in 1..Len(r.post_transform) |-> MatcherBuild(r.post_transform[i])]
        all == pre \o <<pay>> \o post
    IN  IF \E i \in 1..Len(all) : all[i].panic # ""
        THEN [panic |-> all[CHOOSE i \in 1..Len(all) :
                              all[i].panic # "" /\ \A j \in 1..(i - 1) : all[j].panic = ""].panic,
              chain |-> [kind |-> "mrclean", members |-> <<>>]]
        ELSE [panic |-> "",
              chain |-> [kind |-> "mrclean",
                         members |-> [i \in 1..Len(pre) |-> pre[i].matcher]
                                     \o <<pay.payees>>
                                     \o [i \in 1..Len(post) |-> post[i].matcher]]]

\* The entries of p.aliases whose alias set matches text.
Matching(p, text) == {i \in 1..Len(p.aliases) : SetIsMatch(p.aliases[i][2], text)}

\* is_match / transform of any of the four rule kinds.
IsMatch(t, r) ==
    CASE t.kind = "matcher" -> MatcherIsMatch(t, r)
      [] t.kind = "payees" -> PayeesIsMatch(t, r)
      [] t.kind = "vec" -> VecIsMatch(t, r)
      [] t.kind = "mrclean" -> MrCleanIsMatch(t, r)

Transform(t, r) ==
    CASE t.kind = "matcher" -> MatcherTransform(t, r)
      [] t.kind = "payees" -> PayeesTransform(t, r)
      [] t.kind = "vec" -> VecTransform(t, r)
      [] t.kind = "mrclean" -> MrCleanTransform(t, r)

(***************************************************************************)
(* Bounds and input domains                                                *)
(***************************************************************************)
MaxCols == 2

FirstOf(S) == CHOOSE i \in S : \A j \in S : i <= j

SeqsUpTo(S, n) == UNION {[1..k -> S] : k \in 0..n}

Injective(q) == \A i, j \in 1..Len(q) : i # j => q[i][1] # q[j][1]

Fld(type, format, sep, key) == [type |-> type, format |-> format, sep |-> sep, key |-> key]

DayMonthYear == <<"%d", "/", "%m", "/", "%Y">>

Fields ==
    {Fld("ignore", <<>>, "", ""), Fld("date", <<>>, "", ""),
     Fld("date", DayMonthYear, "", ""), Fld("payee", <<>>, "", ""),
     Fld("category", <<>>, "", ""), Fld("memo", <<>>, "", ""),
     Fld("inflow", <<>>, "period", ""), Fld("outflow", <<>>, "comma", ""),
     Fld("extra", <<>>, "", "ref"), Fld("extra", <<>>, "", "payee")}

Cells ==
    {<<>>, <<"a">>, <<"1", ".", "2", ",", "5">>, <<"2", "9", "/", "2", "/", "2", "4">>,
     <<"3", "1", "/", "4", "/", "2", "4">>}

(***************************************************************************)
(* Record::from called on one row under one column mapping                 *)
(***************************************************************************)
Idle == [panic |-> "", rec |-> RecordNew, fired |-> FALSE, err |-> <<>>, trace |-> <<>>]

NoConf == [bank |-> "", columns |-> <<>>, rules |-> <<>>, input |-> <<>>]

MainIdle ==
    /\ conf = NoConf /\ results = <<>> /\ chain = None
    /\ stdout = <<>> /\ stderr = <<>> /\ hist = <<>>

LibIdle == rule = <<>> /\ rec0 = RecordNew /\ rec = RecordNew /\ ret = Idle

MapIdle == mapping = <<>> /\ row = <<>> /\ mapped = [panic |-> "", rec |-> RecordNew]

InitMap ==
    /\ pc = "map"
    /\ row \in SeqsUpTo(Cells, MaxCols)
    /\ mapping \in SeqsUpTo(Fields, MaxCols)
    /\ Len(row) \in {Len(mapping) - 1, Len(mapping)}
    /\ mapped = [panic |-> "", rec |-> RecordNew]
    /\ LibIdle /\ MainIdle

FromRow ==
    /\ pc = "map"
    /\ mapped' = RecordFrom(row, mapping)
    /\ pc' = "mapped"
    /\ UNCHANGED <<mapping, row, rule, rec0, rec, ret, conf, results, chain,
                   stdout, stderr, hist>>

SpecMap == InitMap /\ [][FromRow]_vars

(***************************************************************************)
(* One rule applied to one record: the library's Transformer contract      *)
(***************************************************************************)
MaxSearch == 2

MaxReplace == 2

MaxNames == 2

MaxChain == 2

MaxPre == 1

MaxPost == 1

Src(pre, cap) == [pre |-> pre, cap |-> cap, bad |-> FALSE]

BadSrc == [pre |-> <<>>, cap |-> "", bad |-> TRUE]

SearchEntries == {"payee", "ref"} \X {Src(<<"a">>, "n"), Src(<<>>, "n"), Src(<<>>, "memo")}

Templates ==
    {<<Lit(<<"X">>)>>, <<Ph("payee", "")>>, <<Ph("n", "not_empty")>>,
     <<Lit(<<"=">>), Ph("memo", "uppercase")>>, <<Ph("payee", "shout")>>}

ReplaceEntries == {"payee", "memo", "ref"} \X Templates

Builders ==
    {[search |-> s, replace |-> p] :
        s \in {q \in SeqsUpTo(SearchEntries, MaxSearch) : Injective(q)},
        p \in {q \in SeqsUpTo(ReplaceEntries, MaxReplace) : Injective(q)}}

Names == {<<"X">>, <<"Y">>, <<"a">>}

AliasLists == {<<>>, << <<"a">> >>, << <<"^", "a", "$">> >>, << <<"b">>, <<"A">> >>}

PayeeMaps == {q \in SeqsUpTo(Names \X AliasLists, MaxNames) : Injective(q)}

\* The members drawn for ordered collections.
ChainBuilders ==
    {[search |-> << <<"payee", Src(<<"a">>, "n")>> >>,
      replace |-> << <<"memo", <<Lit(<<"=">>), Ph("n", "")>> >> >>],
     [search |-> <<>>, replace |-> << <<"payee", <<Lit(<<"b">>)>> >> >>],
     [search |-> << <<"memo", Src(<<"=">>, "")>> >>,
      replace |-> << <<"payee", <<Ph("memo", "")>> >> >>],
     [search |-> << <<"ref", Src(<<>>, "n")>> >>,
      replace |-> << <<"ref", <<Ph("n", "not_empty")>> >> >>]}

ChainPayeeMaps ==
    {<<>>,
     << <<<<"X">>, << <<"a">> >> >>, <<<<"Y">>, << <<"b">> >> >> >>,
     << <<<<"Y">>, << <<"^", "B", "$">> >> >> >>}

RuleDocs ==
    {[pre_transform |-> a, payees |-> p, post_transform |-> b] :
        a \in SeqsUpTo(ChainBuilders, MaxPre), p \in ChainPayeeMaps,
        b \in SeqsUpTo(ChainBuilders, MaxPost)}

\* The records the rules are tried on: as Record::from leaves them (not yet
\* transformed), varying in the fields the rules above read and write.
Records ==
    {[RecordNew EXCEPT !.payee = p, !.memo = m, !.extra["ref"] = e] :
        p \in {<<>>, <<"a">>, <<"a", "b">>, <<"A">>, <<"b">>},
        m \in {<<>>, <<"b">>},
        e \in {None, Some(<<"a">>)}}

InitLib ==
    /\ pc = "call"
    /\ \/ \E b \in Builders : rule = MatcherBuild(b).matcher
       \/ \E m \in PayeeMaps, ci \in BOOLEAN, strict \in BOOLEAN :
             rule = [PayeesNew(m, ci).payees EXCEPT !.strict = strict]
       \/ \E v \in SeqsUpTo(ChainBuilders, MaxChain) :
             rule = [kind |-> "vec",
                     members |-> [i \in 1..Len(v) |-> MatcherBuild(v[i]).matcher]]
       \/ \E d \in RuleDocs : rule = MrCleanFrom(d).chain
    /\ rec0 \in Records
    /\ rec = rec0
    /\ ret = Idle
    /\ MapIdle /\ MainIdle

\* rule.transform(&mut rec)
Apply ==
    /\ pc = "call"
    /\ ret' = Transform(rule, rec)
    /\ rec' = ret'.rec
    /\ pc' = "applied"
    /\ UNCHANGED <<mapping, row, mapped, rule, rec0, conf, results, chain,
                   stdout, stderr, hist>>

SpecLib == InitLib /\ [][Apply]_vars

(***************************************************************************)
(* main: one run of the program.  conf.bank is the bank descriptor file    *)
(* ("ok" or "malformed"), conf.columns its column mapping, conf.rules the  *)
(* --rules file (None when the option is absent), conf.input the CSV       *)
(* records the reader yields for the input file.                           *)
(***************************************************************************)
MaxRows == 2

BankColumns == <<Fld("payee", <<>>, "", ""), Fld("memo", <<>>, "", "")>>

InputRows == {<< <<"a">>, <<>> >>, << <<"b">>, <<"=">> >>, << <<"a">> >>}

PreBuilders ==
    {[search |-> << <<"payee", Src(<<"a">>, "n")>> >>,
      replace |-> << <<"payee", <<Lit(<<"b">>), Ph("n", "")>> >> >>],
     [search |-> << <<"payee", BadSrc>> >>, replace |-> <<>>]}

PostBuilders ==
    {[search |-> << <<"payee", Src(<<"X">>, "")>> >>,
      replace |-> << <<"category", <<Ph("payee", "lowercase")>> >> >>],
     [search |-> <<>>, replace |-> << <<"memo", <<Ph("memo", "not_empty")>> >> >>],
     [search |-> << <<"memo", BadSrc>> >>, replace |-> <<>>]}

MainPayeeMaps ==
    {<<>>,
     << <<<<"X">>, << <<"b">> >> >>, <<<<"Y">>, << <<"B">> >> >> >>,
     << <<<<"Y">>, << <<"^", "a", "$">> >> >>, <<<<"X">>, << <<"b">> >> >> >>,
     << <<<<"X">>, << <<"^", "(", "$">> >> >> >>}

RuleFiles ==
    {[malformed |-> TRUE, pre_transform |-> <<>>, payees |-> <<>>, post_transform |-> <<>>]}
    \cup {[malformed |-> FALSE, pre_transform |-> a, payees |-> p, post_transform |-> b] :
            a \in SeqsUpTo(PreBuilders, MaxPre), p \in MainPayeeMaps,
            b \in SeqsUpTo(PostBuilders, MaxPost)}

Confs ==
    [bank : {"ok", "malformed"}, columns : {BankColumns},
     rules : {None} \cup {Some(f) : f \in RuleFiles},
     input : SeqsUpTo(InputRows, MaxRows)]

NoHist == [mapped |-> 0, applied |-> 0, traces |-> <<>>, error |-> ""]

Init ==
    /\ pc = "start"
    /\ conf \in Confs
    /\ results = <<>>
    /\ chain = None
    /\ stdout = <<>>
    /\ stderr = <<>>
    /\ hist = NoHist
    /\ MapIdle /\ LibIdle

Frame == UNCHANGED <<mapping, row, mapped, rule, rec0, rec, ret, conf>>

\* serde_yaml::from_reader(bank_file).expect(..)
ParseBank ==
    /\ pc = "start"
    /\ IF conf.bank = "malformed"
       THEN pc' = "panic" /\ hist' = [hist EXCEPT !.error = "config"]
       ELSE pc' = "read" /\ hist' = hist
    /\ UNCHANGED <<results, chain, stdout, stderr>>
    /\ Frame

\* Mutant of ReadInput: the header is written as soon as the input is read.
ReadInputThenHeader ==
    /\ pc = "read"
    /\ \E each \in {[i \in 1..Len(conf.input) |-> RecordFrom(conf.input[i], conf.columns)]} :
       \E bad \in {{i \in 1..Len(each) : each[i].panic # ""}} :
          IF bad # {}
          THEN /\ pc' = "panic"
               /\ hist' = [hist EXCEPT !.error = "row", !.mapped = FirstOf(bad) - 1]
               /\ results' = results
               /\ stdout' = stdout
          ELSE /\ pc' = IF conf.rules = None THEN "rows" ELSE "rules"
               /\ hist' = [hist EXCEPT !.mapped = Len(each)]
               /\ results' = [i \in 1..Len(each) |-> each[i].rec]
               /\ stdout' = Append(stdout, <<"Date", "Payee", "Category", "Memo", "Amount">>)
    /\ UNCHANGED <<chain, stderr>>
    /\ Frame

\* bank.read_from_path(INPUT)?: every CSV record goes through Record::from.
ReadInput ==
    /\ pc = "read"
    /\ \E each \in {[i \in 1..Len(conf.input) |-> RecordFrom(conf.input[i], conf.columns)]} :
       \E bad \in {{i \in 1..Len(each) : each[i].panic # ""}} :
          IF bad # {}
          THEN /\ pc' = "panic"
               /\ hist' = [hist EXCEPT !.error = "row", !.mapped = FirstOf(bad) - 1]
               /\ results' = results
          ELSE /\ pc' = IF conf.rules = None THEN "write" ELSE "rules"
               /\ hist' = [hist EXCEPT !.mapped = Len(each)]
               /\ results' = [i \in 1..Len(each) |-> each[i].rec]
    /\ UNCHANGED <<chain, stdout, stderr>>
    /\ Frame

\* serde_yaml::from_reader(f).expect("could not parse YAML")
ParseRules ==
    /\ pc = "rules"
    /\ IF conf.rules[1].malformed
       THEN pc' = "panic" /\ hist' = [hist EXCEPT !.error = "config"]
       ELSE pc' = "build" /\ hist' = hist
    /\ UNCHANGED <<results, chain, stdout, stderr>>
    /\ Frame

\* let mr_clean = MrClean::from(rules);
BuildChain ==
    /\ pc = "build"
    /\ \E built \in {MrCleanFrom(conf.rules[1])} :
          IF built.panic # ""
          THEN pc' = "panic" /\ hist' = [hist EXCEPT !.error = "config"] /\ chain' = chain
          ELSE /\ pc' = IF results = <<>> THEN "write" ELSE "transform"
               /\ hist' = hist
               /\ chain' = Some(built.chain)
    /\ UNCHANGED <<results, stdout, stderr>>
    /\ Frame

\* One element of results.into_iter().map(|mut r| { mr_clean.transform(&mut r); r }).
TransformRecord ==
    /\ pc = "transform"
    /\ \E i \in {Len(hist.traces) + 1} :
       \E t \in {MrCleanTransform(chain[1], results[i])} :
          /\ results' = [results EXCEPT ![i] = t.rec]
          /\ stderr' = stderr \o t.err
          /\ hist' = [hist EXCEPT !.traces = Append(@, t.trace),
                                  !.applied = @ + Len(t.trace),
                                  !.error = IF t.panic # "" THEN "template" ELSE @]
          /\ pc' = IF t.panic # "" THEN "panic"
                   ELSE IF i = Len(results) THEN "write" ELSE "transform"
    /\ UNCHANGED <<chain, stdout>>
    /\ Frame

Header == <<"Date", "Payee", "Category", "Memo", "Amount">>

ToRecord(r) == <<r.date, r.payee, r.category, r.memo, r.amount>>

\* wrt.write_record(&Record::header())?
WriteHeader ==
    /\ pc = "write"
    /\ stdout' = Append(stdout, Header)
    /\ pc' = "rows"
    /\ UNCHANGED <<results, chain, stderr, hist>>
    /\ Frame

\* One iteration of `for rec in results`.
WriteRecord ==
    /\ pc = "rows"
    /\ Len(stdout) - 1 < Len(results)
    /\ stdout' = Append(stdout, ToRecord(results[Len(stdout)]))
    /\ UNCHANGED <<pc, results, chain, stderr, hist>>
    /\ Frame

\* Ok(())
Exit ==
    /\ pc = "rows"
    /\ Len(stdout) - 1 = Len(results)
    /\ pc' = "done"
    /\ UNCHANGED <<results, chain, stdout, stderr, hist>>
    /\ Frame

Next ==
    \/ ParseBank
    \/ ReadInput
    \/ ParseRules
    \/ BuildChain
    \/ TransformRecord
    \/ WriteHeader
    \/ WriteRecord
    \/ Exit

Spec == Init /\ [][Next]_vars

(***************************************************************************)
(* Properties of main (Spec)                                               *)
(***************************************************************************)
NumPre == Len(conf.rules[1].pre_transform)

NumPost == Len(conf.rules[1].post_transform)

C4_StrictWarnsOnAmbiguity ==
    chain # None
        => \A k \in 1..Len(hist.traces) :
              LET t == hist.traces[k]
                  p == chain[1].members[NumPre + 1]
              IN  (Len(t) > NumPre /\ Cardinality(Matching(p, t[NumPre + 1].in)) >= 2)
                    => /\ t[NumPre + 1].out = p.aliases[FirstOf(Matching(p, t[NumPre + 1].in))][1]
                       /\ \E n \in 1..Len(stderr) :
                            stderr[n] = <<"warning: multiple aliases match payee",
                                          t[NumPre + 1].in>>

\* C7 as stated: a run that ends with a configuration error has mapped no
\* input row into a Record, applied no rule and written nothing.
C7_ConfigErrorBeforeAnything ==
    (pc = "panic" /\ hist.error = "config")
        => hist.mapped = 0 /\ hist.applied = 0 /\ stdout = <<>>

\* C7 amended: a run that ends with a configuration error has applied no rule
\* and written nothing, not even the header; a malformed bank descriptor ends
\* the run before any input row is mapped, whereas a malformed rule document,
\* match pattern or payee alias ends it after every input row has been mapped
\* into a Record.
C7_Amended ==
    (pc = "panic" /\ hist.error = "config")
        => /\ hist.applied = 0 /\ stdout = <<>>
           /\ conf.bank = "malformed" => hist.mapped = 0
           /\ conf.bank # "malformed" => hist.mapped = Len(conf.input)

\* A run ended by a pattern that does not compile, with two rows read before.
C7_Witness ==
    /\ pc = "panic" /\ hist.error = "config" /\ conf.bank = "ok"
    /\ ~conf.rules[1].malformed
    /\ hist.mapped = 2 /\ Len(results) = 2
    /\ Len(conf.rules[1].post_transform) = 1
    /\ conf.rules[1].post_transform[1].search # <<>>
    /\ conf.rules[1].post_transform[1].search[1][2].bad

(***************************************************************************)
(* Properties of Record::from (SpecMap)                                    *)
(***************************************************************************)
\* The key Record::get is asked for a column's value.
KeyOf(col) ==
    CASE col.type = "date" -> "date"
      [] col.type \in {"inflow", "outflow"} -> "amount"
      [] col.type = "extra" -> col.key
      [] OTHER -> col.type

\* The storage a column is written to: a canonical slot or an entry of `extra`.
SlotOf(col) ==
    IF col.type = "extra" THEN <<"extra", col.key>> ELSE <<"slot", KeyOf(col)>>

\* The value a column derives from its cell: None when there is none.
Derived(col, v) ==
    CASE col.type = "date" ->
            IF col.format = <<>> THEN Some(v)
            ELSE IF ParseDate(v, col.format) = None THEN None
            ELSE Some(FormatDate(ParseDate(v, col.format)[1]))
      [] col.type = "inflow" -> Some(Simplify(col.sep, v))
      [] col.type = "outflow" -> Some(<<"-">> \o Simplify(col.sep, v))
      [] OTHER -> Some(v)

Retrievable(i) ==
    RecordGet(mapped.rec, KeyOf(mapping[i])) = Derived(mapping[i], row[i])

DatesParse ==
    \A i \in 1..Len(mapping) :
        (mapping[i].type = "date" /\ mapping[i].format # <<>>)
            => ParseDate(row[i], mapping[i].format) # None

LastWriter(i) ==
    \A j \in (i + 1)..Len(mapping) :
        mapping[j].type = "ignore" \/ SlotOf(mapping[j]) # SlotOf(mapping[i])

\* C6 as stated: for a row with as many cells as the mapping has entries,
\* Record::from never fails and the value derived from every non-Ignore column
\* is what Record::get returns for that column's key.
C6_TotalAndRetrievable ==
    (pc = "mapped" /\ Len(row) = Len(mapping))
        => /\ mapped.panic = ""
           /\ \A i \in 1..Len(mapping) : mapping[i].type # "ignore" => Retrievable(i)

\* C6 amended: for a row with as many cells as the mapping has entries, whose
\* cells under a Date column with a non-empty pattern all parse under that
\* pattern, Record::from does not fail, and Record::get returns the derived
\* value of every non-Ignore column that is the last column of the mapping
\* writing its slot (Inflow and Outflow share the amount slot) and that is not
\* an Extra column keyed by one of the five canonical names.
C6_Amended ==
    (pc = "mapped" /\ Len(row) = Len(mapping) /\ DatesParse)
        => /\ mapped.panic = ""
           /\ \A i \in 1..Len(mapping) :
                (/\ mapping[i].type # "ignore"
                 /\ LastWriter(i)
                 /\ (mapping[i].type = "extra" => mapping[i].key \notin CanonicalKeys))
                    => Retrievable(i)

C6_Witness ==
    /\ pc = "mapped" /\ Len(row) = 2 /\ Len(mapping) = 2
    /\ mapping[1].type = "date" /\ mapping[1].format # <<>>
    /\ mapping[2].type = "outflow"
    /\ row[2] = <<"1", ".", "2", ",", "5">>
    /\ mapped.panic = ""
    /\ mapped.rec.date = <<"0", "0", "2", "4", "-", "0", "2", "-", "2", "9">>
    /\ mapped.rec.amount = <<"-", "1", "2", ".", "5">>

(***************************************************************************)
(* Properties of the Transformer contract (SpecLib)                        *)
(***************************************************************************)
ReplaceKeys(m) == {m.replace[i][1] : i \in 1..Len(m.replace)}

\* Every slot of r2 that is not named by a key in `keys` is as in r1; the
\* transformed flag is not looked at.
SameOutside(r1, r2, keys) ==
    /\ \A k \in CanonicalKeys \ keys : r2[k] = r1[k]
    /\ \A k \in ExtraKeys \ (keys \ CanonicalKeys) : r2.extra[k] = r1.extra[k]

SearchHolds(m, r) ==
    \A i \in 1..Len(m.search) :
        /\ RecordGet(r, m.search[i][1]) # None
        /\ StartsWith(RecordGet(r, m.search[i][1])[1], m.search[i][2].pre)

\* C3: Matcher::transform fires iff every search entry's field is present and
\* matched by its pattern; when it does not fire it returns false and leaves
\* every slot and the transformed flag as they were; when it fires it returns
\* true, sets transformed, and changes no field that is not a key of replace.
\* (A call that a template error aborts returns nothing; it has changed no
\* field outside the replace keys either, and happens only when the search
\* holds.)
C3_MatcherFrame ==
    (pc = "applied" /\ rule.kind = "matcher")
        => /\ ret.panic = "" => (ret.fired <=> SearchHolds(rule, rec0))
           /\ ret.panic # "" => SearchHolds(rule, rec0)
           /\ (ret.panic = "" /\ ~ret.fired) => rec = rec0
           /\ ret.fired => rec.transformed
           /\ SameOutside(rec0, rec, ReplaceKeys(rule))

C3_Witness ==
    /\ pc = "applied" /\ rule.kind = "matcher" /\ ret.fired
    /\ Len(rule.search) = 2 /\ Len(rule.replace) = 1
    /\ rule.replace[1][1] = "memo" /\ rec.memo # rec0.memo
    /\ rec.payee = rec0.payee /\ rec0.payee = <<"a", "b">>

C3_WitnessNoFire ==
    /\ pc = "applied" /\ rule.kind = "matcher" /\ ~ret.fired /\ ret.panic = ""
    /\ \E i \in 1..Len(rule.search) : RecordGet(rec0, rule.search[i][1]) = None

\* C8: Payees::transform decides every candidate against the payee the record
\* had on entry; it returns true iff some canonical name's alias set matches
\* that text; then the payee is the first matching name in iteration order
\* and nothing else has changed; otherwise the record is unchanged.
C8_PayeesFirstMatch ==
    (pc = "applied" /\ rule.kind = "payees")
        => LET hits == Matching(rule, rec0.payee)
           IN  /\ ret.panic = ""
               /\ ret.fired <=> hits # {}
               /\ hits = {} => rec = rec0
               /\ hits # {} => rec = [rec0 EXCEPT !.payee = rule.aliases[FirstOf(hits)][1]]

\* Two names match, and the first one's name would itself match the second's
\* aliases only: the payee written first is not read again.
C8_Witness ==
    /\ pc = "applied" /\ rule.kind = "payees" /\ rule.strict /\ ret.fired
    /\ Cardinality(Matching(rule, rec0.payee)) = 2
    /\ rec.payee = rule.aliases[1][1]
    /\ rec.payee # rec0.payee

\* C9 as stated: the record a firing Matcher::transform leaves is the same for
\* every order in which the replace entries are processed.
Reorderings(q) ==
    {p \in [1..Len(q) -> {q[i] : i \in 1..Len(q)}] :
        \A i, j \in 1..Len(q) : i # j => p[i] # p[j]}

C9_ReplaceOrderIndependent ==
    (pc = "applied" /\ rule.kind = "matcher" /\ ret.fired)
        => \A q \in Reorderings(rule.replace) :
              LET other == MatcherTransform([rule EXCEPT !.replace = q], rec0)
              IN  other.panic = "" /\ other.rec = rec

\* C10: when no template error is raised, is_match on the record before the
\* call is true iff transform returns true, for a Matcher, a Payees, a
\* Vec<Matcher> and a MrClean.
C10_IsMatchPredictsTransform ==
    (pc = "applied" /\ ret.panic = "") => (IsMatch(rule, rec0) <=> ret.fired)

\* A chain whose first member fires and rewrites the record, and whose second
\* member fires on the rewritten record although it did not match the original.
C10_Witness ==
    /\ pc = "applied" /\ rule.kind = "mrclean" /\ ret.panic = "" /\ ret.fired
    /\ Len(rule.members) = 3
    /\ ret.trace[1].fired /\ ret.trace[2].fired
    /\ ~DynIsMatch(rule.members[2], rec0)
    /\ ~DynIsMatch(rule.members[3], rec0)

\* C2: transform of an ordered collection calls every member's transform once,
\* in sequence order, each on the record its predecessors left, whether or not
\* they fired, and returns true iff some member's transform returned true.
RECURSIVE RecordBefore(_, _, _)
RecordBefore(members, r, i) ==
    IF i = 1 THEN r
    ELSE DynTransform(members[i - 1], RecordBefore(members, r, i - 1)).rec

C2_EveryMemberOnce ==
    (pc = "applied" /\ rule.kind \in {"vec", "mrclean"} /\ ret.panic = "")
        => LET n == Len(rule.members)
               each == [i \in 1..n |->
                          DynTransform(rule.members[i], RecordBefore(rule.members, rec0, i))]
           IN  /\ Len(ret.trace) = n
               /\ \A i \in 1..n :
                    /\ ret.trace[i].idx = i
                    /\ ret.trace[i].fired = each[i].fired
                    /\ ret.trace[i].out = each[i].rec.payee
               /\ rec = RecordBefore(rule.members, rec0, n + 1)
               /\ ret.fired <=> \E i \in 1..n : each[i].fired

\* The first member does not fire and the second does.
C2_Witness ==
    /\ pc = "applied" /\ rule.kind = "vec" /\ Len(rule.members) = 2
    /\ ~ret.trace[1].fired /\ ret.trace[2].fired /\ ret.fired

C2_WitnessBothFire ==
    /\ pc = "applied" /\ rule.kind = "mrclean" /\ Len(ret.trace) = 3
    /\ ret.trace[1].fired /\ ret.trace[2].fired /\ ret.trace[3].fired

\* C5 as stated: after a rule or a chain of rules has been applied to a
\* freshly mapped record, transformed is true iff some rule fired.
C5_TransformedIffFired ==
    (pc = "applied" /\ ret.panic = "") => (rec.transformed <=> ret.fired)

====
